---- MODULE Spec2Model ----
(***************************************************************************)
(* Map processor registry and evaluation lifecycle of                      *)
(* src/main/map_proc.c (FreeRADIUS).                                       *)
(*                                                                         *)
(* Pointers are naturals, NULL is 0.  A map_proc_t lives in one slot of    *)
(* the heap `procs`, a map_proc_inst_t in one slot of the heap `insts`;    *)
(* the slot number is the object's address.  talloc parents are kept in    *)
(* the field `ctx` of each object.  Names are C strings: finite sequences  *)
(* of non-zero bytes.                                                      *)
(***************************************************************************)
EXTENDS Integers, Sequences, FiniteSets, TLC

NULL == 0

\* sizeof(proc->name): the name buffer of a map_proc_t holds this many bytes.
FR_MAX_STRING_LEN == 254

----------------------------------------------------------------------------
(* Bounds of the exploration.                                              *)

\* Number of map_proc_t objects that can be allocated at the same time.
MaxProcs == 2

\* Number of map_proc_inst_t objects that can be allocated at the same time.
MaxInsts == 1

ProcAddrs == 1 .. MaxProcs
InstAddrs == 1 .. MaxInsts

\* Module instances (the mod_inst talloc contexts that own registrations).
Modules == {1, 2}

\* A name of n bytes, all equal to b.
Rep(n, b) == [i \in 1 .. n |-> b]

\* The longest name that fits the name buffer, and a name one byte longer.
NameFull == Rep(FR_MAX_STRING_LEN - 1, 1)
NameOver == Rep(FR_MAX_STRING_LEN, 1)

\* Names passed to map_proc_register and map_proc_find: the empty name, two
\* names of equal length, a long name of which <<1>> is a strict prefix, and
\* a name that does not fit the buffer, of which both are strict prefixes.
Names == {<< >>, <<1>>, <<2>>, NameFull, NameOver}

\* What a module passes to map_proc_register besides itself and the name:
\* the functions are the module's own.
RegistrationsOf(m) ==
    IF m = 1
    THEN { [evaluate |-> 1, escape |-> NULL, instantiate |-> NULL, inst_size |-> 2],
           [evaluate |-> 1, escape |-> 1,    instantiate |-> 1,    inst_size |-> 0] }
    ELSE { [evaluate |-> 2, escape |-> 2,    instantiate |-> 2,    inst_size |-> 2] }

\* The source template and the map list of the one map {} section compiled.
Templates == {1}
MapLists == {1}

\* The request map_proc is called for.
Requests == {1}

\* rlm_rcode_t values an evaluate callback returns.
RLM_MODULE_FAIL == 1
Rcodes == 0 .. 8

----------------------------------------------------------------------------
VARIABLES
    status,         \* "running", or how the process ended
    map_proc_root,  \* the static rbtree_t *: NULL or the address of the tree
    tree,           \* in-order list of the data pointers held by the tree's nodes
    procs,          \* heap of map_proc_t, by address
    mod_live,       \* the module instances whose storage has not been released
    insts,          \* heap of map_proc_inst_t of the caller's talloc ctx, by address
    held,           \* the map_proc_inst_t pointers map_proc_instantiate returned
    strings,        \* the strings tmpl_aexpand() allocated that are not released yet
    last,           \* the last call made into map_proc.c and what it returned
    calls           \* the calls the last call made out of map_proc.c, in order

vars == <<status, map_proc_root, tree, procs, mod_live, insts, held, strings, last, calls>>

\* The address map_proc_root holds once rbtree_create() has succeeded.
ROOT == 1

\* An unallocated slot of the map_proc_t heap.
NoProc == [live |-> FALSE, ctx |-> NULL, destructor |-> FALSE,
           mod_inst |-> NULL, name |-> << >>, length |-> 0,
           evaluate |-> NULL, instantiate |-> NULL, escape |-> NULL,
           inst_size |-> 0]

\* An unallocated slot of the map_proc_inst_t heap.
NoInst == [live |-> FALSE, proc |-> NULL, src |-> NULL, maps |-> NULL,
           data |-> NULL, buf |-> << >>]

LiveProcs == {p \in ProcAddrs : procs[p].live}
LiveInsts == {i \in InstAddrs : insts[i].live}

\* The registration of a call that stored none.
NoReg == [evaluate |-> NULL, escape |-> NULL, instantiate |-> NULL, inst_size |-> 0]

\* The record of a call: the function, the name it was given (if any),
\* whether it returned, its return value, and whether it handed a null tree
\* to rbtree.
Call(op, name, returned, ret, null_tree) ==
    [op |-> op, mod_inst |-> NULL, name |-> name, reg |-> NoReg, inst |-> NULL,
     returned |-> returned, ret |-> ret, null_tree |-> null_tree]

\* The record of a call of map_proc: it holds, in addition, the instance
\* the call was given.
MapProcCall(inst, ret) ==
    [Call("map_proc", << >>, TRUE, ret, FALSE) EXCEPT !.inst = inst]

\* The record of a call of map_proc_register that returned 0: it holds, in
\* addition, the mod_inst and the functions lines 171-175 stored.
RegisterCall(mod_inst, name, reg) ==
    [Call("register", name, TRUE, 0, FALSE) EXCEPT !.mod_inst = mod_inst, !.reg = reg]

----------------------------------------------------------------------------
(* libc                                                                    *)

\* strlcpy(dst, src, size): dst receives at most size - 1 bytes of src.
strlcpy(src, size) ==
    IF Len(src) < size THEN src ELSE SubSeq(src, 1, size - 1)

strlen(s) == Len(s)

Sign(x) == IF x < 0 THEN -1 ELSE IF x > 0 THEN 1 ELSE 0

\* memcmp(a, b, n): the sign of the difference of the first bytes that differ
\* among the first n (only the sign of memcmp's result is defined by C).
memcmp(a, b, n) ==
    IF SubSeq(a, 1, n) = SubSeq(b, 1, n) THEN 0
    ELSE LET i == CHOOSE j \in 1 .. n :
                     a[j] # b[j] /\ SubSeq(a, 1, j - 1) = SubSeq(b, 1, j - 1)
         IN  Sign(a[i] - b[i])

----------------------------------------------------------------------------
(* map_proc_cmp                                                            *)

\* The lookup key built on the stack by map_proc_find and _map_proc_unregister.
FindKey(name) ==
    LET n == strlcpy(name, FR_MAX_STRING_LEN)
    IN  [name |-> n, length |-> strlen(n)]

\* A comparison that forgets the lengths and compares the common prefix only.
map_proc_cmp_prefix(a, b) ==
    memcmp(a.name, b.name, IF a.length < b.length THEN a.length ELSE b.length)

map_proc_cmp(a, b) ==
    IF a.length # b.length THEN a.length - b.length
    ELSE memcmp(a.name, b.name, a.length)

----------------------------------------------------------------------------
(* rbtree: the ordered map behind the registry.  `t` is the in-order list  *)
(* of data pointers, `h` the heap they point into.                         *)

\* Index of the first node whose data does not compare below `key`, or
\* Len(t) + 1.
RECURSIVE LowerBound(_, _, _, _)
LowerBound(t, h, key, i) ==
    IF i > Len(t) THEN i
    ELSE IF map_proc_cmp(key, h[t[i]]) <= 0 THEN i
    ELSE LowerBound(t, h, key, i + 1)

\* rbtree_finddata(tree, data): the data of the node comparing equal, or NULL.
rbtree_finddata(t, h, key) ==
    LET i == LowerBound(t, h, key, 1)
    IN  IF i <= Len(t) /\ map_proc_cmp(key, h[t[i]]) = 0 THEN t[i] ELSE NULL

\* rbtree_insert_node(tree, data) on a tree created with RBTREE_FLAG_REPLACE:
\* a node comparing equal has its data replaced, otherwise a node is added
\* at its place in the order.
rbtree_insert_node(t, h, p) ==
    LET i == LowerBound(t, h, h[p], 1)
    IN  IF i <= Len(t) /\ map_proc_cmp(h[p], h[t[i]]) = 0
        THEN [t EXCEPT ![i] = p]
        ELSE SubSeq(t, 1, i - 1) \o <<p>> \o SubSeq(t, i, Len(t))

\* rbtree_deletebydata(tree, data): removes the node comparing equal to data.
rbtree_deletebydata(t, h, p) ==
    LET i == LowerBound(t, h, h[p], 1)
    IN  IF i <= Len(t) /\ map_proc_cmp(h[p], h[t[i]]) = 0
        THEN SubSeq(t, 1, i - 1) \o SubSeq(t, i + 1, Len(t))
        ELSE t

----------------------------------------------------------------------------
(* map_proc_find                                                           *)

\* map_proc_find(name) as it runs on a given registry: root pointer `root`,
\* tree content `t`, heap `h`.
map_proc_find_in(root, t, h, name) ==
    IF root = NULL THEN NULL
    ELSE rbtree_finddata(t, h, FindKey(name))

\* map_proc_find(name) on the current registry.
map_proc_find(name) == map_proc_find_in(map_proc_root, tree, procs, name)

----------------------------------------------------------------------------
(* _map_proc_unregister: the talloc destructor of a registered map_proc_t  *)

\* The tree after _map_proc_unregister(p) has run on a tree that exists.
map_proc_unregister(t, h, p) ==
    LET found == rbtree_finddata(t, h, FindKey(h[p].name))
    IN  IF found = NULL THEN t ELSE rbtree_deletebydata(t, h, found)

\* The tree after the destructors of all the objects in `ps` have run, one
\* after the other (the result does not depend on the order).
RECURSIVE RunDestructors(_, _, _)
RunDestructors(t, h, ps) ==
    IF ps = {} THEN t
    ELSE LET p == CHOOSE q \in ps : \A r \in ps : r <= q
         IN  RunDestructors(IF h[p].destructor THEN map_proc_unregister(t, h, p) ELSE t,
                            h, ps \ {p})

----------------------------------------------------------------------------
(* map_proc_register                                                       *)

\* talloc_zero(mod_inst, map_proc_t) followed by the name copy of lines 157-158.
NewProc(mod_inst, name) ==
    LET n == strlcpy(name, FR_MAX_STRING_LEN)
    IN  [NoProc EXCEPT !.live = TRUE, !.ctx = mod_inst,
                       !.name = n, !.length = strlen(n)]

\* An update that leaves the escape function of the previous registration.
SetFieldsKeepEscape(rec, mod_inst, reg) ==
    [rec EXCEPT !.mod_inst = mod_inst, !.evaluate = reg.evaluate,
                !.instantiate = reg.instantiate, !.inst_size = reg.inst_size]

\* Lines 171-175: the fields every successful register call writes.
SetFields(rec, mod_inst, reg) ==
    [rec EXCEPT !.mod_inst = mod_inst, !.evaluate = reg.evaluate,
                !.escape = reg.escape, !.instantiate = reg.instantiate,
                !.inst_size = reg.inst_size]

\* The lowest free address of the map_proc_t heap.
FreeProc == CHOOSE p \in ProcAddrs : ~procs[p].live /\ \A q \in 1 .. p - 1 : procs[q].live

\* What goes wrong in a call of map_proc_register, if anything: the build
\* keeps rad_assert() and the assertion of line 139 fails, or one of the
\* three allocations fails.  (A build without assertions runs on.)
RegisterFaults == {"none", "assert", "tree", "proc", "node"}

\* rad_assert(name && name[0]) fails in a build that keeps assertions.
RegisterAssert(mod_inst, name, reg) ==
    /\ name = << >>
    /\ status' = "assert_failed"
    /\ last' = Call("register", name, FALSE, 0, FALSE)
    /\ UNCHANGED <<map_proc_root, tree, procs, mod_live>>

\* rbtree_create() fails: lines 143-146.
RegisterNoTree(mod_inst, name, reg) ==
    /\ map_proc_root = NULL
    /\ last' = Call("register", name, TRUE, -1, FALSE)
    /\ UNCHANGED <<status, map_proc_root, tree, procs, mod_live>>

\* A register that inserts without looking the name up first.
RegisterLookupSkipped(root, t, h, name) == NULL

\* Line 152: proc = map_proc_find(name), on the registry as it is then.
RegisterLookup(root, t, h, name) == map_proc_find_in(root, t, h, name)

\* The name is found: lines 152 and 169-177.
RegisterReplace(mod_inst, name, reg) ==
    LET found == RegisterLookup(map_proc_root, tree, procs, name)
    IN  /\ found # NULL
        /\ procs' = [procs EXCEPT ![found] = SetFields(@, mod_inst, reg)]
        /\ last' = RegisterCall(mod_inst, name, reg)
        /\ UNCHANGED <<status, map_proc_root, tree, mod_live>>

\* The name is not found: lines 141-142 and 152-177.
RegisterNew(mod_inst, name, reg, fault) ==
    LET found == RegisterLookup(IF map_proc_root = NULL THEN ROOT ELSE map_proc_root,
                                tree, procs, name)
        p     == FreeProc
        h     == [procs EXCEPT ![p] = NewProc(mod_inst, name)]
    IN  /\ found = NULL
        /\ \E q \in ProcAddrs : ~procs[q].live
        /\ map_proc_root' = ROOT
        /\ CASE fault = "proc" ->
                  \* talloc_zero() returned NULL and line 157 writes through it
                  /\ status' = "segfault"
                  /\ last' = Call("register", name, FALSE, 0, FALSE)
                  /\ UNCHANGED <<tree, procs>>
             [] fault = "node" ->
                  \* rbtree_insert_node() returned NULL: lines 161-164
                  /\ last' = Call("register", name, TRUE, -1, FALSE)
                  /\ UNCHANGED <<status, tree, procs>>
             [] OTHER ->
                  /\ tree' = rbtree_insert_node(tree, h, p)
                  /\ procs' = [h EXCEPT ![p] =
                                  SetFields([@ EXCEPT !.destructor = TRUE], mod_inst, reg)]
                  /\ last' = RegisterCall(mod_inst, name, reg)
                  /\ UNCHANGED status
        /\ UNCHANGED mod_live

map_proc_register(mod_inst, name, reg, fault) ==
    /\ status = "running"
    /\ mod_inst \in mod_live
    /\ calls' = << >>
    /\ UNCHANGED <<insts, held, strings>>
    /\ IF fault = "assert"
       THEN RegisterAssert(mod_inst, name, reg)
       ELSE \/ fault = "tree" /\ RegisterNoTree(mod_inst, name, reg)
            \/ fault = "none" /\ RegisterReplace(mod_inst, name, reg)
            \/ fault # "tree" /\ RegisterNew(mod_inst, name, reg, fault)

----------------------------------------------------------------------------
(* map_proc_free                                                           *)

\* A teardown that releases nothing.
map_proc_free_nothing ==
    /\ status = "running"
    /\ last' = Call("free", << >>, TRUE, 0, FALSE)
    /\ calls' = << >>
    /\ UNCHANGED <<status, map_proc_root, tree, procs, mod_live, insts, held, strings>>

\* TALLOC_FREE(map_proc_root): the tree and its nodes are released and the
\* pointer is set to NULL.  The tree was created without a node free
\* function, and the map_proc_t are talloc children of their modules: they
\* stay allocated.
map_proc_free ==
    /\ status = "running"
    /\ map_proc_root' = NULL
    /\ tree' = << >>
    /\ last' = Call("free", << >>, TRUE, 0, FALSE)
    /\ calls' = << >>
    /\ UNCHANGED <<status, procs, mod_live, insts, held, strings>>

----------------------------------------------------------------------------
(* Release of a module instance: talloc_free(mod_inst) frees the           *)
(* map_proc_t allocated under it, running _map_proc_unregister on each.    *)

Children(mod_inst) == {p \in LiveProcs : procs[p].ctx = mod_inst}

\* What rbtree_finddata(NULL, ...) at line 86 can do: the read through the
\* null tree pointer ends the process, or yields nothing to delete.
NullTreeOutcomes == {"segfault", "notfound"}

ModuleRelease(mod_inst, outcome) ==
    LET ps == Children(mod_inst)
        ub == map_proc_root = NULL /\ \E p \in ps : procs[p].destructor
    IN  /\ status = "running"
        /\ mod_inst \in mod_live
        \* a map_proc_t outlives the instances that borrow it
        /\ \A i \in LiveInsts : insts[i].proc \notin ps
        /\ IF ub
           THEN /\ status' = IF outcome = "segfault" THEN "segfault" ELSE status
                /\ tree' = tree
           ELSE /\ outcome = "notfound"
                /\ status' = status
                /\ tree' = RunDestructors(tree, procs, ps)
        /\ IF ub /\ outcome = "segfault"
           THEN UNCHANGED <<procs, mod_live>>
           ELSE /\ procs' = [p \in ProcAddrs |-> IF p \in ps THEN NoProc ELSE procs[p]]
                /\ mod_live' = mod_live \ {mod_inst}
        /\ last' = Call("release", << >>, ~(ub /\ outcome = "segfault"), 0, ub)
        /\ calls' = << >>
        /\ UNCHANGED <<map_proc_root, insts, held, strings>>

----------------------------------------------------------------------------
(* map_proc_instantiate                                                    *)

\* The lowest free address of the map_proc_inst_t heap.
FreeInst == CHOOSE i \in InstAddrs : ~insts[i].live /\ \A j \in 1 .. i - 1 : insts[j].live

\* talloc_zero_array(inst, uint8_t, size)
ZeroArray(size) == [k \in 1 .. size |-> 0]

\* A hook that is called only when there is instance data to initialise.
HookConfiguredWithData(proc) == proc.instantiate # NULL /\ proc.inst_size > 0

\* Line 202: is there an instantiate hook to call?
HookConfigured(proc) == proc.instantiate # NULL

\* A failure path that returns without releasing the instance.
talloc_free_inst_missing(h, i) == h

\* talloc_free(inst): the instance and its data (a talloc child) are released.
talloc_free_inst(h, i) == [h EXCEPT ![i] = NoInst]

\* The allocation of map_proc_instantiate that fails, if any.
InstantiateFailures == {"none", "inst", "data"}

\* A test that takes every return of the hook for a success.
HookFailedNever(ret) == FALSE

\* Line 208: the test of what the instantiate hook returned.
HookFailed(ret) == ret < 0

\* The call of the module's instantiate hook at line 208, with the value it
\* returned.
HookCall(proc, inst, ret) ==
    [fn |-> "instantiate", func |-> proc.instantiate, data |-> inst.data,
     buf |-> inst.buf, mod_inst |-> proc.mod_inst, src |-> inst.src,
     maps |-> inst.maps, ret |-> ret]

\* `name` is the name the caller resolved `proc` from with map_proc_find;
\* hook_ret is what the instantiate hook returns and hook_buf what it leaves
\* in the instance data.
map_proc_instantiate(name, src, maps, fail, hook_ret, hook_buf) ==
    LET p     == map_proc_find(name)
        proc  == procs[p]
        i     == FreeInst
        inst0 == [NoInst EXCEPT !.live = TRUE, !.proc = p, !.src = src, !.maps = maps]
        inst1 == IF HookConfigured(proc) /\ proc.inst_size > 0
                 THEN [inst0 EXCEPT !.data = i, !.buf = ZeroArray(proc.inst_size)]
                 ELSE inst0
        inst2 == IF inst1.data # NULL /\ hook_buf # NULL
                 THEN [inst1 EXCEPT !.buf = [k \in 1 .. Len(inst1.buf) |-> hook_buf]]
                 ELSE inst1
    IN  /\ status = "running"
        /\ p # NULL
        /\ \E j \in InstAddrs : ~insts[j].live
        /\ CASE fail = "inst" ->
                  \* talloc_zero() returned NULL and line 198 writes through it
                  /\ status' = "segfault"
                  /\ last' = Call("instantiate", name, FALSE, NULL, FALSE)
                  /\ calls' = << >>
                  /\ UNCHANGED <<insts, held>>
             [] fail = "data" ->
                  \* line 205: talloc_zero_array() returned NULL
                  /\ HookConfigured(proc) /\ proc.inst_size > 0
                  /\ insts' = [insts EXCEPT ![i] = inst0]
                  /\ last' = Call("instantiate", name, TRUE, NULL, FALSE)
                  /\ calls' = << >>
                  /\ UNCHANGED <<status, held>>
             [] OTHER ->
                  IF HookConfigured(proc)
                  THEN /\ calls' = <<HookCall(proc, inst1, hook_ret)>>
                       /\ IF HookFailed(hook_ret)
                          THEN /\ insts' = talloc_free_inst([insts EXCEPT ![i] = inst2], i)
                               /\ last' = Call("instantiate", name, TRUE, NULL, FALSE)
                               /\ UNCHANGED <<status, held>>
                          ELSE /\ insts' = [insts EXCEPT ![i] = inst2]
                               /\ held' = held \cup {i}
                               /\ last' = Call("instantiate", name, TRUE, i, FALSE)
                               /\ UNCHANGED status
                  ELSE /\ calls' = << >>
                       /\ insts' = [insts EXCEPT ![i] = inst1]
                       /\ held' = held \cup {i}
                       /\ last' = Call("instantiate", name, TRUE, i, FALSE)
                       /\ UNCHANGED status
        /\ UNCHANGED <<map_proc_root, tree, procs, mod_live, strings>>

\* talloc_free(ctx): the caller releases the scope its instances were
\* allocated in, and every instance and instance data with it.
ScopeRelease ==
    /\ status = "running"
    /\ LiveInsts # {}
    /\ insts' = [i \in InstAddrs |-> NoInst]
    /\ held' = {}
    /\ last' = Call("scope_release", << >>, TRUE, 0, FALSE)
    /\ calls' = << >>
    /\ UNCHANGED <<status, map_proc_root, tree, procs, mod_live, strings>>

----------------------------------------------------------------------------
(* map_proc                                                                *)

\* The call of tmpl_aexpand() at line 230, with the string it stored in
\* value and the length it returned: the request is both the talloc ctx of
\* the string and the request the template is expanded for.
ExpandCall(request, proc, inst, value, slen) ==
    [fn |-> "tmpl_aexpand", ctx |-> request, request |-> request,
     src |-> inst.src, escape |-> proc.escape, mod_inst |-> proc.mod_inst,
     out |-> value, ret |-> slen]

\* A call of the evaluate function that is handed no map list.
EvaluateCallWithoutMaps(request, proc, inst, value, rcode) ==
    [fn |-> "evaluate", func |-> proc.evaluate, mod_inst |-> proc.mod_inst,
     data |-> inst.data, buf |-> inst.buf, request |-> request,
     value |-> value, maps |-> NULL, ret |-> rcode]

\* The call of the module's evaluate function at line 234, with the
\* rlm_rcode_t it returned.
EvaluateCall(request, proc, inst, value, rcode) ==
    [fn |-> "evaluate", func |-> proc.evaluate, mod_inst |-> proc.mod_inst,
     data |-> inst.data, buf |-> inst.buf, request |-> request,
     value |-> value, maps |-> inst.maps, ret |-> rcode]

\* The call of talloc_free(value) at line 235.
FreeCall(value) == [fn |-> "talloc_free", value |-> value]

\* What tmpl_aexpand() can return: -1, or the length of the string it
\* allocated, here an empty one.
ExpandResults == {-1, 0}

\* A test that lets a failed expansion through to the evaluate function.
ExpandFailedBelowMinusOne(slen) == slen < -1

\* Line 230: the test of what tmpl_aexpand() returned.
ExpandFailed(slen) == slen < 0

\* The lowest free address for a string.
FreeString == CHOOSE v \in 1 .. Cardinality(strings) + 1 :
                 v \notin strings /\ \A w \in 1 .. v - 1 : w \in strings

\* tmpl_aexpand() stores in *out the string it allocated, or NULL when it
\* allocated none.
ExpandedValue(slen) == IF slen < 0 THEN NULL ELSE FreeString

\* A release that leaves the string allocated.
talloc_free_value_missing(ss, value) == ss

\* talloc_free(value) at line 235.
talloc_free_value(ss, value) == ss \ {value}

\* An evaluate function that clears the map list of the instance as well.
CallbackWritesMaps(inst, eval_buf) ==
    [inst EXCEPT !.maps = NULL,
                 !.buf = IF inst.data # NULL /\ eval_buf # NULL
                         THEN [k \in 1 .. Len(inst.buf) |-> eval_buf] ELSE @]

\* What the evaluate function can change through its arguments at line 234:
\* the instance data it receives as void *; the map list is const.
CallbackWrites(inst, eval_buf) ==
    IF inst.data # NULL /\ eval_buf # NULL
    THEN [inst EXCEPT !.buf = [k \in 1 .. Len(inst.buf) |-> eval_buf]]
    ELSE inst

\* inst is a pointer map_proc_instantiate returned; expand is what
\* tmpl_aexpand() returns, rcode what the evaluate function returns and
\* eval_buf what it leaves in the instance data.
map_proc(request, i, expand, rcode, eval_buf) ==
    LET inst  == insts[i]
        proc  == procs[inst.proc]
        value == ExpandedValue(expand)
    IN  /\ status = "running"
        /\ i \in held
        /\ IF ExpandFailed(expand)
           THEN /\ calls' = <<ExpandCall(request, proc, inst, value, expand)>>
                /\ last' = MapProcCall(i, RLM_MODULE_FAIL)
                /\ UNCHANGED <<insts, strings>>
           ELSE /\ calls' = <<ExpandCall(request, proc, inst, value, expand),
                              EvaluateCall(request, proc, inst, value, rcode),
                              FreeCall(value)>>
                /\ last' = MapProcCall(i, rcode)
                /\ insts' = [insts EXCEPT ![i] = CallbackWrites(@, eval_buf)]
                /\ strings' = talloc_free_value(strings \cup ({value} \ {NULL}), value)
        /\ UNCHANGED <<status, map_proc_root, tree, procs, mod_live, held>>

----------------------------------------------------------------------------
Init ==
    /\ status = "running"
    /\ map_proc_root = NULL
    /\ tree = << >>
    /\ procs = [p \in ProcAddrs |-> NoProc]
    /\ mod_live = Modules
    /\ insts = [i \in InstAddrs |-> NoInst]
    /\ held = {}
    /\ strings = {}
    /\ last = Call("none", << >>, TRUE, 0, FALSE)
    /\ calls = << >>

\* The module-loading side: registration, teardown and module release.
RegistryNext ==
    \/ \E m \in Modules, n \in Names, f \in RegisterFaults :
          \E r \in RegistrationsOf(m) : map_proc_register(m, n, r, f)
    \/ map_proc_free
    \/ \E m \in Modules, o \in NullTreeOutcomes : ModuleRelease(m, o)

SpecRegistry == Init /\ [][RegistryNext]_vars

\* The names the modules register and the configuration refers to in InstanceNext.
InstanceNames == {<<1>>, <<2>>}

\* The configuration and request side, over registrations that succeed.
InstanceNext ==
    \/ \E m \in Modules, n \in InstanceNames :
          \E r \in RegistrationsOf(m) : map_proc_register(m, n, r, "none")
    \/ \E n \in InstanceNames, s \in Templates, l \in MapLists,
          f \in InstantiateFailures, r \in {-1, 0}, b \in {NULL, 1} :
          map_proc_instantiate(n, s, l, f, r, b)
    \/ ScopeRelease
    \/ \E q \in Requests, i \in InstAddrs, e \in ExpandResults, c \in Rcodes,
          b \in {NULL, 1} : map_proc(q, i, e, c, b)

SpecInstances == Init /\ [][InstanceNext]_vars

----------------------------------------------------------------------------
(* Properties of the registry, checked under SpecRegistry.                 *)

\* C1: right after a successful map_proc_register(mod_inst, name, evaluate,
\* escape, instantiate, inst_size) with a non-empty name, map_proc_find(name)
\* returns a map_proc_t whose mod_inst, evaluate, escape, instantiate and
\* inst_size are the ones that call passed, whatever calls came before.
C1_FindReturnsLastRegistration ==
    (/\ last.op = "register" /\ last.returned /\ last.ret = 0
     /\ last.name # << >>)
    => LET d == map_proc_find(last.name)
       IN  /\ d # NULL
           /\ procs[d].live
           /\ procs[d].mod_inst = last.mod_inst
           /\ procs[d].evaluate = last.reg.evaluate
           /\ procs[d].escape = last.reg.escape
           /\ procs[d].instantiate = last.reg.instantiate
           /\ procs[d].inst_size = last.reg.inst_size

\* A name registered by one module has just been registered again by the
\* other, and is found with the second module's functions.
C1_Witness ==
    /\ last.op = "register" /\ last.returned /\ last.ret = 0
    /\ last.name = NameFull
    /\ map_proc_find(last.name) # NULL
    /\ procs[map_proc_find(last.name)].ctx = 1
    /\ procs[map_proc_find(last.name)].mod_inst = 2
    /\ procs[map_proc_find(last.name)].escape = 2

\* No two nodes of the tree hold data that compare equal.
NoEqualNodes(t, h) ==
    \A i, j \in 1 .. Len(t) : i # j => map_proc_cmp(h[t[i]], h[t[j]]) # 0

\* C2: map_proc_register under a name the registry already holds adds no
\* node: map_proc_find returns the same map_proc_t before and after the call
\* and the tree holds the same nodes; and after every step no two nodes of
\* the tree compare equal under map_proc_cmp.
C2_ReRegisterKeepsNode ==
    [][/\ NoEqualNodes(tree', procs')
       /\ \A n \in Names :
             (/\ last'.op = "register" /\ last'.name = n
              /\ map_proc_find(n) # NULL
              /\ \E f \in RegisterFaults :
                    map_proc_register(last'.mod_inst, n, last'.reg, f))
             => /\ map_proc_find(n)' = map_proc_find(n)
                /\ tree' = tree]_vars

\* A name has been registered a second time, by the other module, while a
\* second name is registered too.
C2_Witness ==
    /\ last.op = "register" /\ last.returned /\ last.ret = 0
    /\ Len(tree) = 2
    /\ map_proc_find(last.name) # NULL
    /\ procs[map_proc_find(last.name)].ctx # procs[map_proc_find(last.name)].mod_inst

\* Byte-wise order of two strings of the same length.
BytesLess(a, b) ==
    \E i \in 1 .. Len(a) : a[i] < b[i] /\ SubSeq(a, 1, i - 1) = SubSeq(b, 1, i - 1)

\* The order the registry is to keep: shorter names first, names of the same
\* length in byte-wise order.
NameLess(a, b) == Len(a) < Len(b) \/ (Len(a) = Len(b) /\ BytesLess(a, b))

\* a is a strict byte prefix of b.
StrictPrefix(a, b) == Len(a) < Len(b) /\ SubSeq(b, 1, Len(a)) = a

\* The names that fit the name buffer of a map_proc_t.
FittingNames == {n \in Names : Len(n) < FR_MAX_STRING_LEN}

\* C3 as stated: names are equal for the registry only if they have the same
\* length and bytes; a name and a strict prefix of it that are both found are
\* found as two map_proc_t, each holding the name it is found under.
C3_DistinctNamesDistinctEntries ==
    \A a, b \in Names :
       (map_proc_find(a) # NULL /\ map_proc_find(b) # NULL) =>
          /\ a # b => map_proc_find(a) # map_proc_find(b)
          /\ procs[map_proc_find(a)].name = a

\* C3, amended: for names that fit the name buffer, map_proc_cmp orders by
\* length first and byte-wise among equal lengths: the tree is kept in that
\* order, two such names are found as the same map_proc_t only if they are
\* the same name, and each is found under the name it holds (so a name and
\* its strict prefix are two entries).  A longer name is cut to the buffer
\* size by map_proc_register and map_proc_find alike.
C3_LengthThenBytes ==
    /\ \A i \in 1 .. Len(tree) - 1 :
          NameLess(procs[tree[i]].name, procs[tree[i + 1]].name)
    /\ \A a, b \in FittingNames :
          Sign(map_proc_cmp(FindKey(a), FindKey(b)))
             = (IF a = b THEN 0 ELSE IF NameLess(a, b) THEN -1 ELSE 1)
    /\ \A a, b \in FittingNames :
          (map_proc_find(a) # NULL /\ map_proc_find(b) # NULL) =>
             /\ a # b => map_proc_find(a) # map_proc_find(b)
             /\ procs[map_proc_find(a)].name = a
    /\ \A n \in Names :
          map_proc_find(n) # NULL =>
             procs[map_proc_find(n)].name = strlcpy(n, FR_MAX_STRING_LEN)

\* A name and a strict prefix of it are both registered and found as two
\* entries, the shorter first.
C3_Witness ==
    /\ StrictPrefix(<<1>>, NameFull)
    /\ map_proc_find(<<1>>) # NULL
    /\ map_proc_find(NameFull) # NULL
    /\ tree = <<map_proc_find(<<1>>), map_proc_find(NameFull)>>

\* Every map_proc_t has the non-empty name its registration is to have.
NamesNonEmpty == \A p \in LiveProcs : procs[p].name # << >>

\* The step just taken releases module m: talloc_free(mod_inst) has run the
\* destructor _map_proc_unregister of each map_proc_t allocated under it.
Released(m) ==
    /\ last'.op = "release"
    /\ \E o \in NullTreeOutcomes : ModuleRelease(m, o)

\* C4 as stated: the unregistration of the map_proc_t that are destroyed
\* removes no other node: every map_proc_t of another module that was in the
\* tree is still in it afterwards, is still found under its name, and has
\* the same fields.
C4_UnregisterRemovesOnlyOwnNode ==
    [][\A m \in Modules :
          (NamesNonEmpty /\ Released(m)) =>
             \A i \in 1 .. Len(tree) :
                procs[tree[i]].ctx # m =>
                   /\ \E j \in 1 .. Len(tree') : tree'[j] = tree[i]
                   /\ procs'[tree[i]] = procs[tree[i]]
                   /\ \A n \in Names :
                         map_proc_find(n) = tree[i] => map_proc_find(n)' = tree[i]]_vars

\* C5 as stated: when none of the map_proc_t destroyed has a node in the
\* registry (they were unregistered before, or the registry was torn down),
\* their unregistration returns having changed nothing in the registry, and
\* hands no absent tree to rbtree_finddata.
C5_UnregisterIdempotent ==
    [][\A m \in Modules :
          (/\ NamesNonEmpty
           /\ Released(m)
           /\ Children(m) # {}
           /\ \A i \in 1 .. Len(tree) : tree[i] \notin Children(m))
          => /\ last'.returned
             /\ status' = "running"
             /\ ~last'.null_tree
             /\ tree' = tree
             /\ map_proc_root' = map_proc_root]_vars

\* C6 as stated: map_proc_register with an empty name returns -1 and neither
\* adds nor changes a map_proc_t (in either build, and with no allocation
\* failing).
C6_EmptyNameFails ==
    [][\A m \in Modules, f \in {"none", "assert"} : \A r \in RegistrationsOf(m) :
          (last'.op = "register" /\ map_proc_register(m, << >>, r, f))
          => /\ last'.returned
             /\ last'.ret = -1
             /\ status' = "running"
             /\ procs' = procs
             /\ tree' = tree]_vars

\* C7 as stated: after map_proc_free no name is found and no map_proc_t that
\* was in the registry is still allocated.
C7_TeardownReleasesDescriptors ==
    [][(NamesNonEmpty /\ last'.op = "free" /\ map_proc_free) =>
          /\ \A n \in Names : map_proc_find(n)' = NULL
          /\ \A i \in 1 .. Len(tree) : ~procs'[tree[i]].live]_vars

\* C7, amended: map_proc_free, from any state, releases the tree: afterwards
\* map_proc_root is NULL and no name is found.  The map_proc_t that were in
\* the registry are not released by it: they stay allocated, unchanged,
\* under their modules, until the module is released.
C7_TeardownReleasesTree ==
    [][(last'.op = "free" /\ map_proc_free) =>
          /\ map_proc_root' = NULL
          /\ \A n \in Names : map_proc_find(n)' = NULL
          /\ procs' = procs
          /\ mod_live' = mod_live]_vars

\* The registry has just been torn down while two map_proc_t were registered:
\* neither is found and both are still allocated, destructor attached.
C7_Witness ==
    /\ last.op = "free"
    /\ map_proc_root = NULL
    /\ \A n \in Names : map_proc_find(n) = NULL
    /\ Cardinality(LiveProcs) = 2
    /\ \A p \in LiveProcs : procs[p].destructor

----------------------------------------------------------------------------
(* Properties of instance construction, checked under SpecInstances.       *)

\* The instance data as it is when the instance is handed on: to the
\* instantiate hook when there is one, to the caller otherwise.
DataHandedOn(i) ==
    IF calls # << >> THEN [data |-> calls[1].data, buf |-> calls[1].buf]
    ELSE [data |-> insts[i].data, buf |-> insts[i].buf]

\* C8 as stated: the instance a successful map_proc_instantiate returns
\* carries a zero-initialised buffer of exactly inst_size bytes if the
\* map_proc_t has inst_size > 0, and no buffer if inst_size is 0, with or
\* without an instantiate hook.
C8_BufferMatchesInstSize ==
    (last.op = "instantiate" /\ last.returned /\ last.ret # NULL) =>
       LET inst == insts[last.ret]
           proc == procs[inst.proc]
       IN  IF proc.inst_size > 0
           THEN /\ inst.data # NULL
                /\ Len(inst.buf) = proc.inst_size
                /\ DataHandedOn(last.ret).buf = ZeroArray(proc.inst_size)
           ELSE inst.data = NULL

\* The step just taken is a call of map_proc_instantiate with these arguments.
Instantiated(n, s, l, f, r, b) ==
    /\ last'.op = "instantiate" /\ last'.name = n
    /\ map_proc_instantiate(n, s, l, f, r, b)

\* The call of the hook that C9 describes, for the map_proc_t p, when the
\* hook returns r.
ExpectedHookCall(p, s, l, r) ==
    [fn |-> "instantiate", func |-> procs[p].instantiate,
     data |-> IF procs[p].inst_size > 0 THEN FreeInst ELSE NULL,
     buf |-> ZeroArray(procs[p].inst_size),
     mod_inst |-> procs[p].mod_inst, src |-> s, maps |-> l, ret |-> r]

\* C9 as stated: map_proc_instantiate calls the instantiate hook exactly once
\* whenever the map_proc_t has one, whatever inst_size is, with the buffer
\* (absent when inst_size is 0), mod_inst, the source template and the maps
\* (in every call in which the instance itself is allocated).
C9_HookCalledOnce ==
    [][\A n \in InstanceNames, s \in Templates, l \in MapLists,
          f \in {"none", "data"}, r \in {-1, 0}, b \in {NULL, 1} :
          (Instantiated(n, s, l, f, r, b) /\ procs[map_proc_find(n)].instantiate # NULL)
          => calls' = <<ExpectedHookCall(map_proc_find(n), s, l, r)>>]_vars

\* C9, amended: map_proc_instantiate calls the instantiate hook exactly once
\* whenever the map_proc_t has one and no allocation of the call fails,
\* whatever inst_size is, with the zeroed buffer (absent when inst_size is
\* 0), mod_inst, the source template and the maps; when the allocation of the
\* instance or of its buffer fails the hook is not called.
C9_HookCalledOnceUnlessAllocFails ==
    [][\A n \in InstanceNames, s \in Templates, l \in MapLists,
          f \in InstantiateFailures, r \in {-1, 0}, b \in {NULL, 1} :
          (Instantiated(n, s, l, f, r, b) /\ procs[map_proc_find(n)].instantiate # NULL)
          => calls' = IF f = "none"
                      THEN <<ExpectedHookCall(map_proc_find(n), s, l, r)>>
                      ELSE << >>]_vars

\* A map_proc_t with a hook and inst_size 0 has been instantiated: the hook
\* was called once, with no buffer, and the instance returned has none.
C9_Witness ==
    /\ last.op = "instantiate" /\ last.returned /\ last.ret # NULL
    /\ Len(calls) = 1
    /\ calls[1].fn = "instantiate"
    /\ calls[1].data = NULL
    /\ procs[insts[last.ret].proc].inst_size = 0
    /\ insts[last.ret].data = NULL

\* C10: when the instantiate hook returns a negative value,
\* map_proc_instantiate returns NULL and has released the instance and its
\* buffer: the caller's talloc ctx holds what it held before the call, and
\* the caller holds no new pointer to evaluate.
C10_HookFailureReleasesInstance ==
    [][\A n \in InstanceNames, s \in Templates, l \in MapLists, b \in {NULL, 1} :
          (Instantiated(n, s, l, "none", -1, b)
             /\ procs[map_proc_find(n)].instantiate # NULL)
          => /\ last'.returned
             /\ last'.ret = NULL
             /\ status' = "running"
             /\ insts' = insts
             /\ held' = held]_vars

\* The hook has been called with an allocated buffer and has failed: NULL
\* was returned and no instance is left in the caller's ctx.
C10_Witness ==
    /\ last.op = "instantiate" /\ last.returned /\ last.ret = NULL
    /\ Len(calls) = 1
    /\ calls[1].fn = "instantiate"
    /\ calls[1].data # NULL
    /\ LiveInsts = {}
    /\ held = {}

----------------------------------------------------------------------------
(* Properties of evaluation, checked under SpecInstances.                  *)

\* The positions of the calls of an evaluate function in a log of calls.
EvaluateCalls(log) == {k \in 1 .. Len(log) : log[k].fn = "evaluate"}

\* C11: when tmpl_aexpand() fails, map_proc returns RLM_MODULE_FAIL and the
\* evaluate function of the map_proc_t is not called during that call.
C11_ExpansionFailureShortCircuits ==
    (last.op = "map_proc" /\ calls[1].fn = "tmpl_aexpand" /\ calls[1].ret < 0) =>
       /\ last.returned
       /\ last.ret = RLM_MODULE_FAIL
       /\ EvaluateCalls(calls) = {}

\* map_proc has returned RLM_MODULE_FAIL having called tmpl_aexpand(), which
\* failed, and nothing else.
C11_Witness ==
    /\ last.op = "map_proc" /\ last.returned /\ last.ret = RLM_MODULE_FAIL
    /\ Len(calls) = 1
    /\ calls[1].fn = "tmpl_aexpand"
    /\ calls[1].ret = -1

\* C12: when tmpl_aexpand() succeeds, map_proc calls the evaluate function of
\* the instance's map_proc_t exactly once, with the map_proc_t's mod_inst,
\* the instance data, the request, the string tmpl_aexpand() allocated and
\* the instance's map list, and returns the rlm_rcode_t that call returned,
\* whichever it is.
C12_CallbackOnceResultPassedThrough ==
    (last.op = "map_proc" /\ calls[1].fn = "tmpl_aexpand" /\ calls[1].ret >= 0) =>
       /\ Cardinality(EvaluateCalls(calls)) = 1
       /\ \A k \in EvaluateCalls(calls) :
             /\ calls[k].func = procs[insts[last.inst].proc].evaluate
             /\ calls[k].mod_inst = procs[insts[last.inst].proc].mod_inst
             /\ calls[k].data = insts[last.inst].data
             /\ Len(calls[k].buf) = Len(insts[last.inst].buf)
             /\ calls[k].request = calls[1].request
             /\ calls[k].value # NULL
             /\ calls[k].value = calls[1].out
             /\ calls[k].maps = insts[last.inst].maps
             /\ calls[k].maps \in MapLists
             /\ last.returned
             /\ last.ret = calls[k].ret

\* tmpl_aexpand() has returned an empty string, and the evaluate function,
\* called with it, has returned RLM_MODULE_FAIL itself, which map_proc has
\* returned.
C12_Witness ==
    /\ last.op = "map_proc" /\ last.returned /\ last.ret = RLM_MODULE_FAIL
    /\ Len(calls) = 3
    /\ calls[1].ret = 0
    /\ calls[2].fn = "evaluate"
    /\ calls[2].ret = RLM_MODULE_FAIL
    /\ calls[2].maps \in MapLists

\* C13: once map_proc has returned, on whichever path, no string that
\* tmpl_aexpand() allocated for it is still allocated; the string handed to
\* the evaluate function is released, and only after that function returned.
C13_ExpandedStringReleased ==
    (last.op = "map_proc" /\ last.returned) =>
       /\ strings = {}
       /\ \A k \in EvaluateCalls(calls) :
             \E j \in k + 1 .. Len(calls) : calls[j] = FreeCall(calls[k].value)
       /\ \A j \in 1 .. Len(calls) :
             calls[j].fn = "talloc_free" =>
                \E k \in EvaluateCalls(calls) : k < j /\ calls[k].value = calls[j].value

\* map_proc has returned after the evaluate function: the string was released
\* last, and none is left.
C13_Witness ==
    /\ last.op = "map_proc" /\ last.returned
    /\ Len(calls) = 3
    /\ calls[3].fn = "talloc_free"
    /\ calls[3].value # NULL
    /\ calls[3].value = calls[2].value
    /\ strings = {}

\* C14: every step that is a call of map_proc leaves the registry, every
\* map_proc_t and the proc, src and maps of every instance as they were; of
\* the instances only the content of the instance data handed to the
\* evaluate function may differ afterwards.
C14_EvaluationFrame ==
    [][last'.op = "map_proc"
       => /\ map_proc_root' = map_proc_root
          /\ tree' = tree
          /\ procs' = procs
          /\ mod_live' = mod_live
          /\ held' = held
          /\ \A j \in InstAddrs :
                /\ [insts'[j] EXCEPT !.buf = insts[j].buf] = insts[j]
                /\ Len(insts'[j].buf) = Len(insts[j].buf)
                /\ (j # last'.inst \/ insts[j].data = NULL \/ EvaluateCalls(calls') = {})
                   => insts'[j] = insts[j]]_vars

\* The evaluate function has been handed a zeroed instance data and has
\* written to it.
C14_Witness ==
    /\ last.op = "map_proc" /\ last.returned
    /\ Len(calls) = 3
    /\ calls[2].data # NULL
    /\ \E i \in held :
          /\ insts[i].data = calls[2].data
          /\ calls[2].buf = ZeroArray(Len(insts[i].buf))
          /\ insts[i].buf # calls[2].buf

----------------------------------------------------------------------------
(* Allocation failures.                                                    *)

\* C15 as stated (checked under SpecRegistry, on map_proc_register): when
\* the allocation of the tree, of the map_proc_t or of the tree node fails in
\* a call with a non-empty name, the call returns -1 and the process runs on.
C15_AllocationFailureReported ==
    [][\A m \in Modules, n \in Names \ {<< >>}, f \in {"tree", "proc", "node"} :
          \A r \in RegistrationsOf(m) :
             (last'.op = "register" /\ map_proc_register(m, n, r, f))
             => /\ last'.returned
                /\ last'.ret = -1
                /\ status' = "running"]_vars

\* C16 as stated (checked under SpecInstances): when the allocation of the
\* instance data fails, map_proc_instantiate returns NULL having released
\* the instance: the caller's talloc ctx holds what it held before the call.
C16_FailedInstantiateUnwinds ==
    [][\A n \in InstanceNames, s \in Templates, l \in MapLists, r \in {-1, 0},
          b \in {NULL, 1} :
          Instantiated(n, s, l, "data", r, b)
          => /\ last'.returned
             /\ last'.ret = NULL
             /\ insts' = insts
             /\ held' = held]_vars

----------------------------------------------------------------------------
(* Ownership of a map_proc_t across re-registration, checked under         *)
(* SpecRegistry.                                                           *)

\* C17 as stated: the release of a module's storage destroys and unregisters
\* every map_proc_t whose mod_inst is that module, so that in every state of
\* a running process map_proc_find returns only map_proc_t that are
\* allocated and whose mod_inst has not been released.
C17_FoundOwnerNotReleased ==
    (status = "running" /\ NamesNonEmpty) =>
       \A n \in Names :
          map_proc_find(n) # NULL =>
             /\ procs[map_proc_find(n)].live
             /\ procs[map_proc_find(n)].mod_inst \in mod_live

\* Every map_proc_t allocated has its node in the tree: none is left over
\* from before a teardown.
AllRegistered == \A p \in LiveProcs : \E i \in 1 .. Len(tree) : tree[i] = p

\* C20 as stated: the release of a module's storage leaves findable every
\* name whose last successful registration was made by another module that
\* has not been released, with no teardown since; also when the module
\* released had registered the name earlier.
C20_FindableWhileOwnerLives ==
    [][\A m \in Modules :
          (NamesNonEmpty /\ AllRegistered /\ Released(m))
          => \A n \in Names :
                (/\ map_proc_find(n) # NULL
                 /\ procs[map_proc_find(n)].mod_inst # m
                 /\ procs[map_proc_find(n)].mod_inst \in mod_live)
                => map_proc_find(n)' # NULL]_vars

----------------------------------------------------------------------------
(* Lifecycle of an instance, checked under SpecInstances.                  *)

\* Where the map_proc_inst_t at address i stands: not allocated (not yet, or
\* destroyed), allocated but not handed to the caller, or handed to the
\* caller by a successful map_proc_instantiate.
Phase(i) ==
    IF ~insts[i].live THEN "Unallocated"
    ELSE IF i \in held THEN "Ready"
    ELSE "Constructing"

\* C18: an instance becomes Ready only by a map_proc_instantiate that returns
\* it, after the instantiate hook, if the map_proc_t has one, was called and
\* did not fail; a map_proc_instantiate that returns NULL makes no instance
\* Ready; a Ready instance stays Ready until it is destroyed and never is
\* under construction again; and every step that is a call of map_proc is
\* made on an instance that is allocated and Ready, and is still Ready
\* afterwards.
C18_InstanceLifecycle ==
    [][/\ \A i \in InstAddrs :
             /\ Phase(i) = "Ready" => Phase(i)' \in {"Ready", "Unallocated"}
             /\ Phase(i) = "Constructing" => Phase(i)' \in {"Constructing", "Unallocated"}
             /\ (Phase(i) # "Ready" /\ Phase(i)' = "Ready")
                => /\ Phase(i) = "Unallocated"
                   /\ last'.op = "instantiate" /\ last'.returned /\ last'.ret = i
                   /\ procs[insts'[i].proc].instantiate # NULL
                      => /\ Len(calls') = 1
                         /\ calls'[1].fn = "instantiate"
                         /\ calls'[1].ret >= 0
       /\ (last'.op = "instantiate" /\ last'.ret = NULL)
          => \A i \in InstAddrs : Phase(i)' = "Ready" => Phase(i) = "Ready"
       /\ last'.op = "map_proc"
          => \A i \in InstAddrs :
                i = last'.inst
                => /\ insts[i].live
                   /\ Phase(i) = "Ready"
                   /\ Phase(i)' = "Ready"]_vars

\* An instance made Ready by a successful hook has been evaluated and is
\* still Ready.
C18_Witness ==
    /\ last.op = "map_proc" /\ last.returned
    /\ \E k \in EvaluateCalls(calls) : calls[k].func = 2
    /\ \E i \in InstAddrs :
          /\ Phase(i) = "Ready"
          /\ procs[insts[i].proc].instantiate # NULL
          /\ insts[i].data # NULL

\* C19 as stated, for the instances that carry instance data: whenever
\* map_proc calls the evaluate function of a map_proc_t and hands it
\* instance data, the map_proc_t has, as it is registered then, inst_size > 0
\* and the data has exactly inst_size bytes.
C19_BufferMatchesCurrentRegistration ==
    [][last'.op = "map_proc"
       => \A k \in EvaluateCalls(calls') :
             calls'[k].data # NULL
             => /\ procs[insts[last'.inst].proc].inst_size > 0
                /\ Len(calls'[k].buf) = procs[insts[last'.inst].proc].inst_size]_vars

====
